---- MODULE Spec2Model ----
(***************************************************************************)
(* A model of AmazonReviewScraper (src/main.py): the fetch / extract /     *)
(* find-next / advance loop of scrape(), and the two pure functions        *)
(* extract_reviews_from_page and find_next_page_url over a document tree.  *)
(*                                                                         *)
(* Text is a sequence of one-character strings, so that strip() and the    *)
(* substring test are computed; a character TLA+ cannot write is named     *)
(* ("NBSP").  A URL, like an href, is a string, read character by          *)
(* character by urlsplit() and written back by urlunsplit().               *)
(* A document is the pre-order sequence of its nodes, each with its depth; *)
(* a text node has tag "#text".                                            *)
(***************************************************************************)
EXTENDS Naturals, Sequences, FiniteSets, TLC

(* ------------------------------ bounds --------------------------------- *)
\* max_pages is drawn from 0..MaxPagesCap
MaxPagesCap == 2
\* scrape() is invoked at most MaxCalls times on the one instance
MaxCalls == 2

(* ------------------------------- text ---------------------------------- *)
\* the characters for which str.isspace() holds, the ones str.strip() removes:
\* U+0009-000D, U+001C-001F, U+0020, U+0085, U+00A0, U+1680, U+2000-200A,
\* U+2028, U+2029, U+202F, U+205F, U+3000
Whitespace ==
    { " ", "\t", "\n", "\r", "\f", "VT", "FS", "GS", "RS", "US", "NEL", "NBSP",
      "U+1680", "U+2000", "U+2001", "U+2002", "U+2003", "U+2004", "U+2005",
      "U+2006", "U+2007", "U+2008", "U+2009", "U+200A", "U+2028", "U+2029",
      "U+202F", "U+205F", "U+3000" }

Last(s) == s[Len(s)]
Front(s) == SubSeq(s, 1, Len(s) - 1)

RECURSIVE lstrip(_)
lstrip(t) == IF t # <<>> /\ Head(t) \in Whitespace THEN lstrip(Tail(t)) ELSE t

RECURSIVE rstrip(_)
rstrip(t) == IF t # <<>> /\ Last(t) \in Whitespace THEN rstrip(Front(t)) ELSE t

\* str.strip()
strip(t) == rstrip(lstrip(t))

\* needle in text
Contains(t, needle) ==
    \E i \in 1..(Len(t) + 1) :
        /\ i + Len(needle) - 1 <= Len(t)
        /\ SubSeq(t, i, i + Len(needle) - 1) = needle

RECURSIVE Flatten(_)
Flatten(ss) == IF ss = <<>> THEN <<>> ELSE Head(ss) \o Flatten(Tail(ss))

IsPrefix(s, t) == Len(s) <= Len(t) /\ SubSeq(t, 1, Len(s)) = s

(* ------------------------------- URLs ---------------------------------- *)
CharAt(s, i) == SubSeq(s, i, i)
\* s[i:] and s[:n], counting from 1
From(s, i) == SubSeq(s, i, Len(s))
Upto(s, n) == IF n < Len(s) THEN SubSeq(s, 1, n) ELSE s
Chars(s) == {CharAt(s, i) : i \in 1..Len(s)}

\* str.find and str.rfind, 0 when the character is not there
Find(s, c, start) ==
    LET hits == {i \in start..Len(s) : CharAt(s, i) = c}
    IN  IF hits = {} THEN 0 ELSE CHOOSE i \in hits : \A j \in hits : i <= j
RFind(s, c) ==
    LET hits == {i \in 1..Len(s) : CharAt(s, i) = c}
    IN  IF hits = {} THEN 0 ELSE CHOOSE i \in hits : \A j \in hits : j <= i

\* str.split(c)
RECURSIVE Split(_, _)
Split(s, c) ==
    LET i == Find(s, c, 1)
    IN  IF i = 0 THEN <<s>> ELSE <<Upto(s, i - 1)>> \o Split(From(s, i + 1), c)

\* c.join(parts)
RECURSIVE Join(_, _)
Join(parts, c) ==
    IF parts = <<>> THEN ""
    ELSE IF Len(parts) = 1 THEN Head(parts)
    ELSE Head(parts) \o c \o Join(Tail(parts), c)

\* url.replace(b, "") for every b of cs
RECURSIVE Without(_, _)
Without(s, cs) ==
    IF s = "" THEN ""
    ELSE IF CharAt(s, 1) \in cs THEN Without(From(s, 2), cs)
    ELSE CharAt(s, 1) \o Without(From(s, 2), cs)

\* url.lstrip(cs)
RECURSIVE LStrip(_, _)
LStrip(s, cs) == IF s # "" /\ CharAt(s, 1) \in cs THEN LStrip(From(s, 2), cs) ELSE s

UpperLetters == "ABCDEFGHIJKLMNOPQRSTUVWXYZ"
LowerLetters == "abcdefghijklmnopqrstuvwxyz"
Digits == "0123456789"
\* str.lower() of ASCII text
RECURSIVE Lower(_)
Lower(s) ==
    IF s = "" THEN ""
    ELSE LET i == Find(UpperLetters, CharAt(s, 1), 1)
         IN  (IF i = 0 THEN CharAt(s, 1) ELSE CharAt(LowerLetters, i)) \o Lower(From(s, 2))

\* urllib.parse: scheme_chars, _WHATWG_C0_CONTROL_OR_SPACE (the characters of it
\* a string of the model can hold), _UNSAFE_URL_BYTES_TO_REMOVE
scheme_chars == Chars(UpperLetters) \cup Chars(LowerLetters) \cup Chars(Digits) \cup {"+", "-", "."}
C0ControlOrSpace == {" ", "\t", "\n", "\r", "\f"}
UnsafeToRemove == {"\t", "\r", "\n"}

uses_relative ==
    { "", "ftp", "http", "gopher", "nntp", "imap", "wais", "file", "https", "shttp", "mms",
      "prospero", "rtsp", "rtsps", "rtspu", "sftp", "svn", "svn+ssh", "ws", "wss" }
uses_netloc ==
    { "", "ftp", "http", "gopher", "nntp", "telnet", "imap", "wais", "file", "mms", "https",
      "shttp", "snews", "prospero", "rtsp", "rtsps", "rtspu", "rsync", "svn", "svn+ssh",
      "sftp", "nfs", "git", "git+ssh", "ws", "wss" }
uses_params ==
    { "", "ftp", "hdl", "prospero", "http", "imap", "https", "shttp", "rtsp", "rtsps",
      "rtspu", "sip", "sips", "mms", "sftp", "tel" }

\* ipaddress.IPv4Address._parse_octet succeeds
ValidOctet(o) ==
    /\ o # ""
    /\ Chars(o) \subseteq Chars(Digits)
    /\ Len(o) <= 3
    /\ (o = "0" \/ CharAt(o, 1) # "0")
    /\ Len(o) = 3 =>
          \/ CharAt(o, 1) = "1"
          \/ CharAt(o, 1) = "2" /\ CharAt(o, 2) \in Chars("01234")
          \/ CharAt(o, 1) = "2" /\ CharAt(o, 2) = "5" /\ CharAt(o, 3) \in Chars("012345")

\* ipaddress.IPv4Address(a) succeeds
ValidIPv4(a) ==
    /\ a # ""
    /\ Find(a, "/", 1) = 0
    /\ Len(Split(a, ".")) = 4
    /\ \A k \in 1..4 : ValidOctet(Split(a, ".")[k])

\* ipaddress.IPv6Address._parse_hextet succeeds
ValidHextet(h) ==
    h # "" /\ Chars(h) \subseteq Chars("0123456789abcdefABCDEF") /\ Len(h) <= 4

\* _ip_int_from_string once the '::' is found at skip_index: what is on either
\* side of it must be hextets, fewer than eight, and a leading or trailing ':'
\* must belong to the '::'
ValidAroundSkip(parts, n, skip_index) ==
    LET parts_hi == IF parts[1] = "" THEN skip_index - 2 ELSE skip_index - 1
        parts_lo == IF parts[n] = "" THEN n - skip_index - 1 ELSE n - skip_index
    IN  /\ parts[1] = "" => parts_hi = 0
        /\ parts[n] = "" => parts_lo = 0
        /\ parts_hi + parts_lo <= 7
        /\ \A i \in 1..parts_hi : ValidHextet(parts[i])
        /\ \A i \in (n - parts_lo + 1)..n : ValidHextet(parts[i])

\* _ip_int_from_string on the parts, an IPv4 tail already made two hextets
ValidParts(parts, skips) ==
    /\ Len(parts) <= 9
    /\ Cardinality(skips) <= 1
    /\ IF skips # {}
       THEN ValidAroundSkip(parts, Len(parts), CHOOSE i \in skips : TRUE)
       ELSE Len(parts) = 8 /\ \A i \in 1..Len(parts) : ValidHextet(parts[i])

\* ipaddress.IPv6Address._ip_int_from_string succeeds on ip_str.split(':')
ValidSplit(parts0, v4) ==
    /\ Len(parts0) >= 3
    /\ v4 => ValidIPv4(Last(parts0))
    /\ ValidParts(IF v4 THEN Front(parts0) \o <<"0", "0">> ELSE parts0,
                  {i \in 2..(Len(parts0) + (IF v4 THEN 1 ELSE 0) - 1) :
                     (IF v4 THEN Front(parts0) \o <<"0", "0">> ELSE parts0)[i] = ""})

\* ipaddress.IPv6Address._ip_int_from_string succeeds
ValidIPv6Body(a) ==
    a # "" /\ ValidSplit(Split(a, ":"), Find(Last(Split(a, ":")), ".", 1) # 0)

\* ipaddress.IPv6Address(a) succeeds: no '/', an optional %scope that is not empty
ValidIPv6(a) ==
    LET p == Find(a, "%", 1)
    IN  /\ Find(a, "/", 1) = 0
        /\ IF p = 0 THEN ValidIPv6Body(a)
           ELSE /\ From(a, p + 1) # ""
                /\ Find(From(a, p + 1), "%", 1) = 0
                /\ ValidIPv6Body(Upto(a, p - 1))

\* re.match(r"\Av[a-fA-F0-9]+\..+\Z", h)
ValidIPvFuture(h) ==
    LET dots == {d \in 3..(Len(h) - 1) :
                   /\ CharAt(h, d) = "."
                   /\ Chars(SubSeq(h, 2, d - 1)) \subseteq Chars("0123456789abcdefABCDEF")}
    IN  dots # {}

\* urlsplit raises ValueError for this netloc: the brackets do not pair, or
\* _check_bracketed_host refuses what is between them
NetlocRaises(netloc) ==
    LET open == Find(netloc, "[", 1)
        close == Find(netloc, "]", 1)
        after == From(netloc, open + 1)
        shut == Find(after, "]", 1)
        host == IF shut = 0 THEN after ELSE Upto(after, shut - 1)
    IN  IF open = 0 /\ close = 0 THEN FALSE
        ELSE IF open = 0 \/ close = 0 THEN TRUE
        ELSE IF host # "" /\ CharAt(host, 1) = "v" THEN ~ValidIPvFuture(host)
        ELSE ~ValidIPv6(host)

\* _splitnetloc(url, 2): where the netloc ends, the earliest of '/', '?', '#'
NetlocEnd(url) ==
    LET ends == {i \in 3..Len(url) : CharAt(url, i) \in {"/", "?", "#"}}
    IN  IF ends = {} THEN Len(url) + 1 ELSE CHOOSE i \in ends : \A j \in ends : i <= j

\* where the ':' that ends a scheme is, 0 when url[:i] is not a scheme
SchemeEnd(url) ==
    LET i == Find(url, ":", 1)
    IN  IF /\ i > 1
           /\ CharAt(url, 1) \in Chars(UpperLetters) \cup Chars(LowerLetters)
           /\ Chars(Upto(url, i - 1)) \subseteq scheme_chars
        THEN i ELSE 0

\* urlsplit, the netloc taken off: '#' ends the path and query, '?' the path.
\* `raises` tells that urlsplit ends in ValueError
split_tail(scheme, netloc, tail) ==
    LET h == Find(tail, "#", 1)
        nofrag == IF h = 0 THEN tail ELSE Upto(tail, h - 1)
        q == Find(nofrag, "?", 1)
    IN  [scheme |-> scheme,
         netloc |-> netloc,
         path |-> IF q = 0 THEN nofrag ELSE Upto(nofrag, q - 1),
         query |-> IF q = 0 THEN "" ELSE From(nofrag, q + 1),
         fragment |-> IF h = 0 THEN "" ELSE From(tail, h + 1),
         raises |-> NetlocRaises(netloc)]

\* urlsplit, the scheme taken off: `if url[:2] == '//'` a netloc follows
split_rest(scheme, rest) ==
    IF Upto(rest, 2) = "//"
    THEN split_tail(scheme, SubSeq(rest, 3, NetlocEnd(rest) - 1), From(rest, NetlocEnd(rest)))
    ELSE split_tail(scheme, "", rest)

\* urlsplit, the url stripped and cleaned
split_scheme(clean, scheme) ==
    LET i == SchemeEnd(clean)
    IN  IF i = 0 THEN split_rest(scheme, clean)
        ELSE split_rest(Lower(Upto(clean, i - 1)), From(clean, i + 1))

\* urllib.parse.urlsplit(url, scheme)
urlsplit(url, scheme) ==
    split_scheme(Without(LStrip(url, C0ControlOrSpace), UnsafeToRemove), scheme)

\* _splitparams(url): where the ';' of the last segment is, 0 for none
ParamsAt(path) ==
    IF Find(path, "/", 1) # 0 THEN Find(path, ";", RFind(path, "/")) ELSE Find(path, ";", 1)

\* urlparse, on what urlsplit gave
with_params(r) ==
    LET i == IF r.scheme \in uses_params THEN ParamsAt(r.path) ELSE 0
    IN  [scheme |-> r.scheme, netloc |-> r.netloc,
         path |-> IF i = 0 THEN r.path ELSE Upto(r.path, i - 1),
         params |-> IF i = 0 THEN "" ELSE From(r.path, i + 1),
         query |-> r.query, fragment |-> r.fragment, raises |-> r.raises]

\* urllib.parse.urlparse(url, scheme)
urlparse(url, scheme) == with_params(urlsplit(url, scheme))

\* urllib.parse.urlunsplit
urlunsplit(scheme, netloc, path, query, fragment) ==
    LET u1 == IF netloc # "" \/ (scheme # "" /\ scheme \in uses_netloc /\ Upto(path, 2) # "//")
              THEN "//" \o netloc \o (IF path # "" /\ Upto(path, 1) # "/" THEN "/" \o path
                                      ELSE path)
              ELSE path
        u2 == IF scheme # "" THEN scheme \o ":" \o u1 ELSE u1
        u3 == IF query # "" THEN u2 \o "?" \o query ELSE u2
    IN  IF fragment # "" THEN u3 \o "#" \o fragment ELSE u3

\* urllib.parse.urlunparse
urlunparse(scheme, netloc, path, params, query, fragment) ==
    urlunsplit(scheme, netloc, IF params # "" THEN path \o ";" \o params ELSE path,
               query, fragment)

\* segments[1:-1] = filter(None, segments[1:-1])
FilterMiddle(segs) ==
    IF Len(segs) <= 2 THEN segs
    ELSE <<Head(segs)>>
         \o SelectSeq(SubSeq(segs, 2, Len(segs) - 1), LAMBDA x : x # "")
         \o <<Last(segs)>>

\* `for seg in segments:` with resolved_path = acc: '..' pops, '.' is skipped
RECURSIVE ResolveDots(_, _)
ResolveDots(segs, acc) ==
    IF segs = <<>> THEN acc
    ELSE IF Head(segs) = ".."
         THEN ResolveDots(Tail(segs), IF acc = <<>> THEN acc ELSE Front(acc))
    ELSE IF Head(segs) = "." THEN ResolveDots(Tail(segs), acc)
    ELSE ResolveDots(Tail(segs), Append(acc, Head(segs)))

\* resolved_path, with the '' appended after a final '.' or '..'
ResolvedPath(segs) ==
    IF Last(segs) \in {".", ".."} THEN Append(ResolveDots(segs, <<>>), "")
    ELSE ResolveDots(segs, <<>>)

\* urljoin on the parsed base b and the parsed url u
join_parsed(url, b, u) ==
    LET base_parts == IF Last(Split(b.path, "/")) # "" THEN Front(Split(b.path, "/"))
                      ELSE Split(b.path, "/")
        segments == IF Upto(u.path, 1) = "/" THEN Split(u.path, "/")
                    ELSE FilterMiddle(base_parts \o Split(u.path, "/"))
        joined == Join(ResolvedPath(segments), "/")
    IN  IF u.scheme # b.scheme \/ u.scheme \notin uses_relative THEN url
        ELSE IF u.scheme \in uses_netloc /\ u.netloc # ""
             THEN urlunparse(u.scheme, u.netloc, u.path, u.params, u.query, u.fragment)
        ELSE IF u.path = "" /\ u.params = ""
             THEN urlunparse(u.scheme, IF u.scheme \in uses_netloc THEN b.netloc ELSE u.netloc,
                             b.path, b.params,
                             IF u.query = "" THEN b.query ELSE u.query, u.fragment)
        ELSE urlunparse(u.scheme, IF u.scheme \in uses_netloc THEN b.netloc ELSE u.netloc,
                        IF joined = "" THEN "/" ELSE joined,
                        u.params, u.query, u.fragment)

\* urljoin, the base parsed: the url is parsed with the scheme of the base
join_base(url, b) == join_parsed(url, b, urlparse(url, b.scheme))

\* urllib.parse.urljoin(base, url), when it does not raise
urljoin(base, url) ==
    IF base = "" THEN url
    ELSE IF url = "" THEN base
    ELSE join_base(url, urlparse(base, ""))

\* the parsed base or the url parsed with its scheme made urlsplit raise
raises_base(url, b) == b.raises \/ urlparse(url, b.scheme).raises

\* urllib.parse.urljoin(base, url) raises ValueError
urljoin_raises(base, url) ==
    base # "" /\ url # "" /\ raises_base(url, urlparse(base, ""))

\* the literal "https://www.amazon.com" both urljoin calls resolve against
SiteRoot == "https://www.amazon.com"

\* a locator is absolute when it names its scheme
IsAbsolute(u) == urlsplit(u, "").scheme # ""

(* ---------------------------- document tree ---------------------------- *)
El(tag, depth, attrs) == [tag |-> tag, depth |-> depth, attrs |-> attrs, text |-> <<>>]
Txt(depth, chars) == [tag |-> "#text", depth |-> depth, attrs |-> [none |-> ""], text |-> chars]

NoSoup == [kind |-> "None"]
Soup(nodes) == [kind |-> "soup", nodes |-> nodes]

\* the positions of the descendants of node i (0 is the document itself)
Descendants(nodes, i) ==
    IF i = 0 THEN 1..Len(nodes)
    ELSE {j \in (i + 1)..Len(nodes) :
            \A k \in (i + 1)..j : nodes[k].depth > nodes[i].depth}

RECURSIVE SortedSeq(_)
SortedSeq(S) ==
    IF S = {} THEN <<>>
    ELSE LET m == CHOOSE x \in S : \A y \in S : x <= y
         IN  <<m>> \o SortedSeq(S \ {m})

\* bs4's match of an attribute: the multi-valued class matches on any one of
\* its tokens or on the whole value, every other attribute on the whole value
AttrMatches(el, name, wanted) ==
    /\ name \in DOMAIN el.attrs
    /\ IF name = "class"
       THEN \/ el.attrs[name] = wanted
            \/ Len(wanted) = 1 /\ \E k \in 1..Len(el.attrs[name]) : el.attrs[name][k] = wanted[1]
       ELSE el.attrs[name] = wanted

\* Tag.find_all(tag, attrs): positions under `root`, in document order
find_all(nodes, root, tag, name, wanted) ==
    SortedSeq({j \in Descendants(nodes, root) :
                 /\ nodes[j].tag = tag
                 /\ (name # "" => AttrMatches(nodes[j], name, wanted))})

\* Tag.find(tag, attrs): the first match, 0 for None
find(nodes, root, tag, name, wanted) ==
    LET all == find_all(nodes, root, tag, name, wanted)
    IN  IF all = <<>> THEN 0 ELSE Head(all)

\* Tag.text: the strings under the element, in document order
text(nodes, i) ==
    LET strs == SortedSeq({j \in Descendants(nodes, i) : nodes[j].tag = "#text"})
    IN  Flatten([k \in 1..Len(strs) |-> nodes[strs[k]].text])

(* ------------------- extract_reviews_from_page ------------------------- *)
selectors ==
    << [tag |-> "div",  name |-> "data-hook", value |-> "review-collapsed"],
       [tag |-> "span", name |-> "data-hook", value |-> "review-body"],
       [tag |-> "span", name |-> "class",     value |-> <<"a-size-base", "review-text">>] >>

\* the text the loop body takes from one matched element
element_text(nodes, sel, i) ==
    IF sel.tag = "div"
    THEN LET span == find(nodes, i, "span", "", "")
         IN  IF span # 0 THEN strip(text(nodes, span)) ELSE <<>>
    ELSE strip(text(nodes, i))

\* the body of `if review_elements:`: the non-empty texts, in order
collect(nodes, sel, els) ==
    SelectSeq([k \in 1..Len(els) |-> element_text(nodes, sel, els[k])],
              LAMBDA t : t # <<>>)

\* the variant without `break`: a strategy whose texts are all empty is passed over
RECURSIVE try_selectors_nobreak(_, _)
try_selectors_nobreak(nodes, k) ==
    IF k > Len(selectors) THEN <<>>
    ELSE LET sel == selectors[k]
             els == find_all(nodes, 0, sel.tag, sel.name, sel.value)
         IN  IF els # <<>> /\ collect(nodes, sel, els) # <<>>
             THEN collect(nodes, sel, els)
             ELSE try_selectors_nobreak(nodes, k + 1)

\* `for tag, attrs in selectors:` from the k-th selector on
RECURSIVE try_selectors(_, _)
try_selectors(nodes, k) ==
    IF k > Len(selectors) THEN <<>>
    ELSE LET sel == selectors[k]
             els == find_all(nodes, 0, sel.tag, sel.name, sel.value)
         IN  IF els # <<>> THEN collect(nodes, sel, els)
             ELSE try_selectors(nodes, k + 1)

extract_reviews_from_page(soup) ==
    IF soup = NoSoup THEN <<>> ELSE try_selectors(soup.nodes, 1)

(* ------------------------- find_next_page_url -------------------------- *)
NoneRef == [kind |-> "None"]
SomeRef(u) == [kind |-> "url", url |-> u]
\* link["href"] on a link without the attribute
KeyError == [kind |-> "KeyError"]
\* urljoin() on an href urlsplit() refuses
ValueError == [kind |-> "ValueError"]

\* return urljoin("https://www.amazon.com", href)
resolved(href) ==
    IF urljoin_raises(SiteRoot, href) THEN ValueError ELSE SomeRef(urljoin(SiteRoot, href))

Next_ == <<"N", "e", "x", "t">>

\* next_page_a.get("href") is truthy
HasHref(el) == "href" \in DOMAIN el.attrs /\ el.attrs.href # ""

\* Method 2: the first a.a-link-normal under the bar whose text contains "Next"
pagination_next(nodes) ==
    LET pagination == find(nodes, 0, "div", "id", "cm_cr-pagination_bar")
        next_links == IF pagination = 0 THEN <<>>
                      ELSE find_all(nodes, pagination, "a", "class", <<"a-link-normal">>)
        hits == SelectSeq(next_links,
                          LAMBDA l : text(nodes, l) # <<>> /\ Contains(text(nodes, l), Next_))
    IN  IF hits = <<>> THEN NoneRef
        ELSE IF "href" \in DOMAIN nodes[Head(hits)].attrs
             THEN resolved(nodes[Head(hits)].attrs.href)
             ELSE KeyError

find_next_page_url(soup) ==
    IF soup = NoSoup THEN NoneRef
    ELSE LET nodes == soup.nodes
             next_page_li == find(nodes, 0, "li", "class", <<"a-last">>)
             next_page_a == IF next_page_li = 0 THEN 0
                            ELSE find(nodes, next_page_li, "a", "", "")
         IN  IF next_page_a # 0 /\ HasHref(nodes[next_page_a])
             THEN resolved(nodes[next_page_a].attrs.href)
             ELSE pagination_next(nodes)

(* ------------------------- sample documents ---------------------------- *)
NoAttrs == <<>>
Hook(v) == "data-hook" :> v
Class(tokens) == "class" :> tokens
Id(v) == "id" :> v
Href(u) == "href" :> u

Ok_ == <<"o", "k">>
No_ == <<"n", "o">>

HardcodedId == "B09G9FPHY6"
ExampleId == "B0BSHF7WHW"
\* an identifier that holds the delimiters of a URL
DelimitedId == "a?b#c/d"
ProductIds == {HardcodedId, ExampleId, DelimitedId}

\* f"https://www.amazon.com/product-reviews/{product_id}"
make_base_url_hardcoded(product_id) ==
    "https://www.amazon.com/product-reviews/" \o HardcodedId

make_base_url(product_id) ==
    "https://www.amazon.com/product-reviews/" \o product_id

\* hrefs as they are written in a page
RelPage2 == "/product-reviews/B0BSHF7WHW?pageNumber=2"
AbsStart == "https://www.amazon.com/product-reviews/B0BSHF7WHW"
\* the start page again, told apart from it by its fragment only
StartFragment == "/product-reviews/B0BSHF7WHW#top"
QueryOnly == "?pageNumber=2"
HashOnly == "#"
Blank == " \n"
RelNoSlash == "p3"
DotDot == "../x/./y/..;v?"
OtherHost == "//other.example/x"
OtherScheme == "HTTP://www.amazon.com/y?#"
UpperScheme == "HTTPS://www.amazon.com\t/product-reviews/B0BSHF7WHW"
Script == "javascript:void(0);"
Bracket == "//[::1/x"
Loopback == "//[::ffff:127.0.0.1]:8080/x"

ReviewDiv == El("div", 0, Hook("review-collapsed"))
ReviewBody == El("span", 0, Hook("review-body"))
ReviewText == El("span", 0, Class(<<"a-size-base", "review-text">>))

R_none == <<>>
R_collapsed == <<ReviewDiv, El("span", 1, NoAttrs), Txt(2, <<" ">> \o Ok_ \o <<"\n">>)>>
R_collapsed_nospan == <<ReviewDiv, Txt(1, No_), ReviewBody, Txt(1, Ok_)>>
R_collapsed_blank == <<ReviewDiv, El("span", 1, NoAttrs), Txt(2, <<" ", "\t">>),
                       ReviewBody, Txt(1, Ok_)>>
R_collapsed_first_span ==
    <<ReviewDiv, Txt(1, Ok_), El("span", 1, NoAttrs), Txt(2, <<" ">> \o No_),
      El("span", 1, NoAttrs), Txt(2, Ok_),
      ReviewDiv, El("span", 1, NoAttrs)>>
R_collapsed_deep ==
    <<ReviewDiv, El("span", 1, NoAttrs), Txt(2, <<"o">>), El("b", 2, NoAttrs), Txt(3, <<"k">>)>>
R_nested ==
    <<ReviewBody, Txt(1, No_), El("div", 1, Hook("review-collapsed")),
      El("span", 2, NoAttrs), Txt(3, Ok_)>>
R_body_dupes ==
    <<ReviewBody, Txt(1, Ok_ \o <<" ">>), ReviewBody, Txt(1, <<" ", "\n">>),
      ReviewBody, Txt(1, Ok_)>>
R_body_two == <<ReviewBody, Txt(1, Ok_), ReviewBody, Txt(1, <<"\n">> \o No_)>>
R_body_inner_space == <<ReviewBody, Txt(1, <<"o", " ", "k">>), ReviewText, Txt(1, No_)>>
R_body_nbsp == <<ReviewBody, Txt(1, <<"NBSP", "VT">> \o Ok_ \o <<"FS", "U+3000">>),
                ReviewBody, Txt(1, <<"NBSP", "NEL">>),
                ReviewBody, Txt(1, Ok_ \o <<"U+2009">>)>>
R_class == <<ReviewText, Txt(1, No_)>>
R_class_reordered == <<El("span", 0, Class(<<"review-text", "a-size-base">>)), Txt(1, No_)>>
R_wrong_tag == <<El("div", 0, Hook("review-body")), Txt(1, Ok_)>>

ReviewFrags ==
    { R_none, R_collapsed, R_collapsed_nospan, R_collapsed_blank, R_collapsed_first_span,
      R_collapsed_deep, R_nested, R_body_dupes, R_body_two, R_body_inner_space, R_body_nbsp,
      R_class, R_class_reordered, R_wrong_tag }

LastLi == El("li", 0, Class(<<"a-last">>))
Bar == El("div", 0, Id("cm_cr-pagination_bar"))
NormalLink(href) == El("a", 1, Class(<<"a-link-normal">>) @@ Href(href))

P_none == <<>>
P_last_rel == <<LastLi, El("a", 1, Href(RelPage2)), Txt(2, Next_)>>
P_last_self == <<LastLi, El("a", 1, Href(AbsStart)), Txt(2, Next_)>>
P_last_fragment == <<LastLi, El("a", 1, Href(StartFragment)), Txt(2, Next_)>>
P_last_hash == <<LastLi, El("a", 1, Href(HashOnly)), Txt(2, Next_)>>
P_last_dots == <<LastLi, El("a", 1, Href(DotDot)), Txt(2, Next_)>>
P_last_blank == <<LastLi, El("a", 1, Href(Blank)), Txt(2, Next_)>>
P_last_upper == <<LastLi, El("a", 1, Href(UpperScheme)), Txt(2, Next_)>>
P_last_script == <<LastLi, El("a", 1, Href(Script)), Txt(2, Next_)>>
P_last_bracket == <<LastLi, El("a", 1, Href(Bracket)), Txt(2, Next_)>>
P_last_loopback == <<LastLi, El("a", 1, Href(Loopback)), Txt(2, Next_)>>
P_last_other == <<LastLi, El("a", 1, Href(OtherHost)), Txt(2, Next_)>>
P_last_scheme == <<LastLi, El("a", 1, Href(OtherScheme))>>
P_last_disabled == <<El("li", 0, Class(<<"a-disabled", "a-last">>)), Txt(1, Next_)>>
P_last_empty_href == <<LastLi, El("a", 1, Href("")), Txt(2, Next_)>>
P_last_second == <<LastLi, El("li", 0, Class(<<"a-last">>)), El("a", 1, Href(RelPage2))>>
P_last_nohref_bar ==
    <<LastLi, El("a", 1, NoAttrs), Bar, NormalLink(QueryOnly), Txt(2, <<"P", "r", "e", "v">>),
      NormalLink(RelNoSlash), Txt(2, Next_ \o <<" ", ">">>), NormalLink(RelPage2), Txt(2, Next_)>>
P_bar_query == <<Bar, NormalLink(QueryOnly), Txt(2, Next_)>>
P_bar_empty_href == <<Bar, NormalLink(""), Txt(2, Next_)>>
P_bar_nohref == <<Bar, El("a", 1, Class(<<"a-link-normal">>)), Txt(2, Next_)>>
P_bar_noclass == <<Bar, El("a", 1, Href(RelPage2)), Txt(2, Next_)>>
P_bar_lowercase == <<Bar, NormalLink(RelPage2), Txt(2, <<"n", "e", "x", "t">>)>>
P_bar_outside == <<Bar, El("a", 0, Class(<<"a-link-normal">>) @@ Href(RelPage2)), Txt(1, Next_)>>

PagFrags ==
    { P_none, P_last_rel, P_last_self, P_last_fragment, P_last_hash, P_last_dots,
      P_last_blank, P_last_upper, P_last_script, P_last_bracket, P_last_loopback,
      P_last_other, P_last_scheme, P_last_disabled,
      P_last_empty_href, P_last_second, P_last_nohref_bar, P_bar_query, P_bar_empty_href,
      P_bar_nohref, P_bar_noclass, P_bar_lowercase, P_bar_outside }

\* the documents the two functions are applied to
Docs == {r \o p : r \in ReviewFrags, p \in PagFrags} \cup {p \o r : r \in ReviewFrags, p \in PagFrags}
Soups == {NoSoup} \cup {Soup(d) : d \in Docs}

\* the pages the transport serves to scrape()
PageReviewFrags == {R_none, R_collapsed_nospan, R_body_nbsp, R_body_two}
PagePagFrags ==
    {P_none, P_last_fragment, P_last_self, P_last_blank, P_last_upper, P_last_bracket, P_bar_nohref}
Pages == {r \o p : r \in PageReviewFrags, p \in PagePagFrags}

(* ------------------------------- state --------------------------------- *)
VARIABLES
    product_id,     \* self.product_id
    base_url,       \* self.base_url
    max_pages,      \* self.max_pages
    delay_range,    \* self.delay_range
    reviews,        \* self.reviews
    current_url,    \* scrape(): current_url
    page_num,       \* scrape(): page_num
    pc,             \* where scrape() is: idle, while, fetch, delay, done
    result,         \* what the latest scrape() gave its caller
    arg_product_id, \* the product_id argument of the constructor
    calls,          \* invocations of scrape() so far
    reviews0,       \* self.reviews when the current invocation began
    fetched,        \* this invocation's _fetch_page calls: <<page_num, url>>
    extracted,      \* this invocation's extract_reviews_from_page results
    last_fetch,     \* the latest loop iteration, as seen when it ended
    last_io,        \* the latest call, fetch or sleep
    soup_in,        \* the document a pure function is applied to
    pure_pc,        \* input, extracted, found
    out_reviews,    \* extract_reviews_from_page(soup_in)
    out_next        \* find_next_page_url(soup_in)

scraper_vars == <<product_id, base_url, max_pages, delay_range, reviews, current_url,
                  page_num, pc, result, arg_product_id, calls, reviews0, fetched,
                  extracted, last_fetch, last_io>>
pure_vars == <<soup_in, pure_pc, out_reviews, out_next>>
vars == <<scraper_vars, pure_vars>>

DefaultDelayMin == 3
DefaultDelayMax == 7

NoFetch == [page |-> 0, url |-> SiteRoot, ok |-> FALSE, got |-> <<>>,
            next |-> NoneRef, before |-> <<>>]

\* AmazonReviewScraper.__init__(product_id, max_pages, delay_range)
Construct(pid, n) ==
    /\ arg_product_id = pid
    /\ product_id = HardcodedId
    /\ base_url = make_base_url(pid)
    /\ max_pages = n
    /\ delay_range = <<DefaultDelayMin, DefaultDelayMax>>
    /\ reviews = <<>>

ScraperIdle ==
    /\ current_url = SiteRoot
    /\ page_num = 0
    /\ pc = "idle"
    /\ result = [kind |-> "none"]
    /\ calls = 0
    /\ reviews0 = <<>>
    /\ fetched = <<>>
    /\ extracted = <<>>
    /\ last_fetch = NoFetch
    /\ last_io = [kind |-> "none"]

PureIdle ==
    /\ soup_in = NoSoup
    /\ pure_pc = "off"
    /\ out_reviews = <<>>
    /\ out_next = NoneRef

Init ==
    /\ \E pid \in ProductIds, n \in 0..MaxPagesCap : Construct(pid, n)
    /\ ScraperIdle
    /\ PureIdle

(* ----------------------------- _fetch_page ----------------------------- *)
Statuses == {200, 404, 429, 500, 503}

\* what session.get(url) can do: raise, or answer with a status and a body
Responses ==
    {[kind |-> "exception", status |-> 0, body |-> <<>>]}
    \cup {[kind |-> "http", status |-> 200, body |-> d] : d \in Pages}
    \cup {[kind |-> "http", status |-> st, body |-> <<>>] : st \in Statuses \ {200}}

_fetch_page(resp) ==
    IF resp.kind = "exception" THEN NoSoup
    ELSE IF resp.status = 200 THEN Soup(resp.body)
    ELSE IF resp.status = 503 \/ resp.status = 429 THEN NoSoup
    ELSE NoSoup

(* ------------------------------- scrape -------------------------------- *)
\* the variant that tests page_num <= self.max_pages + 1
loop_condition_one_more(url, n, max) == n <= max + 1

\* while current_url and page_num <= self.max_pages
loop_condition(url, n, max) == url # "" /\ n <= max

\* the variant that puts the page's reviews in front
extend_in_front(acc, page_reviews) == page_reviews \o acc

\* self.reviews.extend(page_reviews)
extend(acc, page_reviews) == acc \o page_reviews

\* the variant without the self-loop guard
should_advance_unguarded(next_url, cur) == next_url.kind = "url" /\ next_url.url # ""

\* if next_url and next_url != current_url
should_advance(next_url, cur) ==
    next_url.kind = "url" /\ next_url.url # "" /\ next_url.url # cur

\* the variant that stops on a page without reviews
after_page_stop_on_empty(page_reviews, next_url, cur) ==
    IF next_url \in {KeyError, ValueError} THEN "raise"
    ELSE IF page_reviews # <<>> /\ should_advance(next_url, cur) THEN "advance"
    ELSE "break"

\* lines 133-144: what the iteration does once the page is there
after_page(page_reviews, next_url, cur) ==
    IF next_url \in {KeyError, ValueError} THEN "raise"
    ELSE IF should_advance(next_url, cur) THEN "advance"
    ELSE "break"

\* scrape() is entered
Call ==
    /\ pc = "idle"
    /\ calls < MaxCalls
    /\ calls' = calls + 1
    /\ current_url' = base_url
    /\ page_num' = 1
    /\ pc' = "while"
    /\ result' = [kind |-> "none"]
    /\ reviews0' = reviews
    /\ fetched' = <<>>
    /\ extracted' = <<>>
    /\ last_fetch' = NoFetch
    /\ last_io' = [kind |-> "call"]
    /\ UNCHANGED <<product_id, base_url, max_pages, delay_range, reviews, arg_product_id>>
    /\ UNCHANGED pure_vars

\* the test of the while loop
LoopTest ==
    /\ pc = "while"
    /\ pc' = IF loop_condition(current_url, page_num, max_pages) THEN "fetch" ELSE "done"
    /\ UNCHANGED <<product_id, base_url, max_pages, delay_range, reviews, current_url,
                   page_num, result, arg_product_id, calls, reviews0, fetched,
                   extracted, last_fetch, last_io>>
    /\ UNCHANGED pure_vars

\* lines 128, 133 and 136 on each response: the soup, the reviews extracted from
\* it and the next locator found in it depend on the response alone
Served ==
    {[soup |-> _fetch_page(resp),
      page_reviews |-> extract_reviews_from_page(_fetch_page(resp)),
      next_url |-> find_next_page_url(_fetch_page(resp))] : resp \in Responses}

\* one iteration: the fetch and, when a page came back, lines 133-144
FetchPage ==
    /\ pc = "fetch"
    /\ \E served \in Served :
        LET soup == served.soup
            page_reviews == served.page_reviews
            next_url == served.next_url
            todo == after_page(page_reviews, next_url, current_url)
        IN  /\ fetched' = Append(fetched, <<page_num, current_url>>)
            /\ IF soup = NoSoup
               THEN /\ pc' = "done"
                    /\ last_io' = [kind |-> "fetch", ok |-> FALSE]
                    /\ last_fetch' = [page |-> page_num, url |-> current_url, ok |-> FALSE,
                                      got |-> <<>>, next |-> NoneRef, before |-> reviews]
                    /\ UNCHANGED <<reviews, extracted, current_url, page_num, result>>
               ELSE /\ reviews' = extend(reviews, page_reviews)
                    /\ extracted' = Append(extracted, page_reviews)
                    /\ last_io' = [kind |-> "fetch", ok |-> TRUE]
                    /\ last_fetch' = [page |-> page_num, url |-> current_url, ok |-> TRUE,
                                      got |-> page_reviews, next |-> next_url,
                                      before |-> reviews]
                    /\ current_url' = IF todo = "advance" THEN next_url.url ELSE current_url
                    /\ page_num' = IF todo = "advance" THEN page_num + 1 ELSE page_num
                    /\ pc' = CASE todo = "advance" -> "delay"
                               [] todo = "break" -> "done"
                               [] todo = "raise" -> "idle"
                    /\ result' = IF todo = "raise" THEN [kind |-> "raise", value |-> <<>>]
                                 ELSE result
    /\ UNCHANGED <<product_id, base_url, max_pages, delay_range, arg_product_id, calls,
                   reviews0>>
    /\ UNCHANGED pure_vars

\* _random_delay(): sleep for random.uniform(*delay_range), a float between the
\* two ends; of the duration the model keeps the whole seconds, floor(delay)
RandomDelay ==
    /\ pc = "delay"
    /\ \E whole_secs \in delay_range[1]..delay_range[2] :
        last_io' = [kind |-> "delay", whole_secs |-> whole_secs]
    /\ pc' = "while"
    /\ UNCHANGED <<product_id, base_url, max_pages, delay_range, reviews, current_url,
                   page_num, result, arg_product_id, calls, reviews0, fetched,
                   extracted, last_fetch>>
    /\ UNCHANGED pure_vars

\* return self.reviews
Return ==
    /\ pc = "done"
    /\ pc' = "idle"
    /\ result' = [kind |-> "return", value |-> reviews]
    /\ UNCHANGED <<product_id, base_url, max_pages, delay_range, reviews, current_url,
                   page_num, arg_product_id, calls, reviews0, fetched, extracted,
                   last_fetch, last_io>>
    /\ UNCHANGED pure_vars

Next == Call \/ LoopTest \/ FetchPage \/ RandomDelay \/ Return

Spec == Init /\ [][Next]_vars

(* ------------------ the two functions on their own --------------------- *)
PureInit ==
    /\ Construct(ExampleId, 0)
    /\ ScraperIdle
    /\ soup_in \in Soups
    /\ pure_pc = "input"
    /\ out_reviews = <<>>
    /\ out_next = NoneRef

ApplyExtract ==
    /\ pure_pc = "input"
    /\ out_reviews' = extract_reviews_from_page(soup_in)
    /\ pure_pc' = "extracted"
    /\ UNCHANGED <<soup_in, out_next>>
    /\ UNCHANGED scraper_vars

ApplyFindNext ==
    /\ pure_pc = "extracted"
    /\ out_next' = find_next_page_url(soup_in)
    /\ pure_pc' = "found"
    /\ UNCHANGED <<soup_in, out_reviews>>
    /\ UNCHANGED scraper_vars

PureNext == ApplyExtract \/ ApplyFindNext

PureSpec == PureInit /\ [][PureNext]_vars

(* ------------------------------- claims -------------------------------- *)
Running == pc # "idle"

PcRank == [p \in {"idle", "done", "fetch", "while", "delay"} |->
             CASE p = "idle" -> 0 [] p = "done" -> 1 [] p = "fetch" -> 2
               [] p = "while" -> 3 [] p = "delay" -> 4]

\* what is left of an invocation: the pages still allowed, then the place in the loop
Variant == IF pc = "idle" THEN 0 ELSE 4 * ((max_pages + 1) - page_num) + PcRank[pc]

FetchBound ==
    /\ Len(fetched) <= max_pages
    /\ \A i \in 1..Len(fetched) : fetched[i][1] = i /\ fetched[i][1] \in 1..max_pages
    /\ Running => page_num \in 1..(max_pages + 1)

\* C1: one call of scrape() performs at most max_pages calls of _fetch_page, each
\* for a page index in 1..max_pages, and terminates: every step of a running
\* invocation strictly decreases a natural-valued measure.
C1_AtMostMaxPagesFetches ==
    /\ [](FetchBound)
    /\ [][Running => (Variant' < Variant)]_vars

C1_Witness ==
    /\ max_pages = MaxPagesCap
    /\ Len(fetched) = max_pages
    /\ page_num = max_pages + 1
    /\ result.kind = "return"

\* C2: no inter-page wait occurs after the final processed page: when the loop
\* has been left, the latest thing scrape() did was not a sleep.
C2_NoWaitAfterFinalPage == pc = "done" => last_io.kind # "delay"

\* C3: a fetch that yields the absence signal stops scrape(): nothing is fetched
\* or slept after it, the accumulated sequence is untouched, no exception
\* reaches the caller, and what is returned is exactly the reviews of the pages
\* before it.
C3_AbsenceStopsAndReturnsEarlierPages ==
    (last_io.kind = "fetch" /\ ~last_fetch.ok) =>
        /\ pc \in {"done", "idle"}
        /\ Last(fetched) = <<last_fetch.page, last_fetch.url>>
        /\ Len(extracted) = last_fetch.page - 1
        /\ reviews = last_fetch.before
        /\ result.kind # "raise"
        /\ result.kind = "return" => result.value = Flatten(extracted)

\* C4: self.reviews only grows: each step leaves the old value as a prefix of
\* the new one, and the value is the pages' extractions one after the other, in
\* page order, nothing removed, reordered or deduplicated.
C4_ReviewsOnlyGrow ==
    /\ [](reviews = reviews0 \o Flatten(extracted))
    /\ [][IsPrefix(reviews, reviews')]_vars

C4_Witness ==
    /\ Len(extracted) = 2
    /\ extracted[1] = <<Ok_, Ok_>>
    /\ extracted[2] = <<Ok_, No_>>
    /\ reviews0 # <<>>

NextIsAbsentOrSelf(f) ==
    f.ok /\ (f.next = NoneRef \/ (f.next.kind = "url" /\ f.next.url = f.url))

\* C5: after a page is processed whose next-page reference is absent or equals
\* the current locator, the loop stops whatever max_pages is: page index and
\* locator stay, there is no sleep and no further fetch.
C5_StopsWithoutNextPage ==
    NextIsAbsentOrSelf(last_fetch) =>
        /\ pc \in {"done", "idle"}
        /\ last_io = [kind |-> "fetch", ok |-> TRUE]
        /\ page_num = last_fetch.page
        /\ current_url = last_fetch.url
        /\ Len(fetched) = last_fetch.page

C5_Witness ==
    /\ last_fetch.ok
    /\ last_fetch.next = SomeRef(last_fetch.url)
    /\ last_fetch.page < max_pages
    /\ result.kind = "return"

MatchesOf(nodes, k) == find_all(nodes, 0, selectors[k].tag, selectors[k].name, selectors[k].value)
Matching(nodes) == {k \in 1..Len(selectors) : MatchesOf(nodes, k) # <<>>}
FirstMatching(nodes) == CHOOSE k \in Matching(nodes) : \A j \in Matching(nodes) : k <= j

\* C6: extract_reviews_from_page returns the non-empty trimmed texts, in
\* document order, of the elements of the first strategy that matches anything,
\* and nothing of a later strategy, also when all those texts are empty; it
\* returns nothing for an absent tree or when no strategy matches.
C6_FirstMatchingStrategyOnly ==
    pure_pc \in {"extracted", "found"} =>
        /\ \A i \in 1..Len(out_reviews) :
              /\ out_reviews[i] # <<>>
              /\ Head(out_reviews[i]) \notin Whitespace
              /\ Last(out_reviews[i]) \notin Whitespace
        /\ IF soup_in = NoSoup \/ Matching(soup_in.nodes) = {}
           THEN out_reviews = <<>>
           ELSE LET k == FirstMatching(soup_in.nodes)
                    els == MatchesOf(soup_in.nodes, k)
                IN  out_reviews =
                      SelectSeq([i \in 1..Len(els) |->
                                    element_text(soup_in.nodes, selectors[k], els[i])],
                                LAMBDA t : t # <<>>)

C6_Witness ==
    /\ pure_pc = "extracted"
    /\ soup_in # NoSoup
    /\ Matching(soup_in.nodes) = {1, 2}
    /\ collect(soup_in.nodes, selectors[2], MatchesOf(soup_in.nodes, 2)) # <<>>
    /\ out_reviews = <<>>

\* C7: find_next_page_url gives either nothing or an absolute locator, never a
\* relative one and never an error, also for a "Next" link without href.
C7_NextIsAbsentOrAbsolute ==
    pure_pc = "found" =>
        /\ out_next.kind \in {"None", "url"}
        /\ out_next.kind = "url" => IsAbsolute(out_next.url)

EmptyPageWithNext(f) ==
    /\ f.ok
    /\ f.got = <<>>
    /\ f.next.kind = "url"
    /\ f.next.url # f.url
    /\ f.page < max_pages

\* C8: a fetched page without reviews does not stop the crawl: with a next-page
\* reference other than the current locator and a page index below max_pages,
\* scrape() advances to that reference and goes on to fetch it, and the
\* accumulated sequence is as it was before the page.
C8_EmptyPageDoesNotStop ==
    EmptyPageWithNext(last_fetch) =>
        /\ pc \in {"delay", "while", "fetch"}
        /\ current_url = last_fetch.next.url
        /\ page_num = last_fetch.page + 1
        /\ reviews = last_fetch.before

C8_Witness ==
    /\ Len(fetched) = 2
    /\ extracted[1] = <<>>
    /\ fetched[2][2] # fetched[1][2]
    /\ last_fetch.page = 2

\* C9: every invocation of scrape() starts from the initial crawl state:
\* locator = starting locator, page index 1, accumulated sequence empty; so what
\* it returns holds only reviews extracted during that invocation.
C9_EveryCallStartsFresh ==
    /\ last_io.kind = "call" =>
          (current_url = base_url /\ page_num = 1 /\ reviews = <<>>)
    /\ result.kind = "return" => result.value = Flatten(extracted)

\* C10 as stated: the product_id argument is inert, the starting locator being
\* the one a scraper constructed with any other product_id fetches first.
C10_ProductIdInert ==
    fetched # <<>> => \A p \in ProductIds : fetched[1][2] = make_base_url(p)

\* C10, amended: the product_id argument selects the starting locator,
\* https://www.amazon.com/product-reviews/<argument>, which every invocation
\* fetches first, so different arguments give different starting locators;
\* only the stored product_id attribute is the fixed "B09G9FPHY6".
C10_ProductIdSelectsStart ==
    /\ product_id = "B09G9FPHY6"
    /\ base_url = "https://www.amazon.com/product-reviews/" \o arg_product_id
    /\ fetched # <<>> => fetched[1] = <<1, base_url>>
    /\ \A p \in ProductIds \ {arg_product_id} : make_base_url(p) # base_url

C10_Witness ==
    /\ arg_product_id # product_id
    /\ fetched # <<>>
    /\ fetched[1][2] = "https://www.amazon.com/product-reviews/B0BSHF7WHW"

====
